---- MODULE Spec2Model ----
(***************************************************************************)
(* Model of geopandas/tools.py: _extract_rings and overlay.                *)
(*                                                                         *)
(* The geometry kernel (shapely) is abstract.  A geometry value carries    *)
(* its type, its polygons (validity, number of holes) and `covers`, the    *)
(* set of faces of the arrangement whose representative point it           *)
(* intersects.  The faces polygonize recovers are 1..nfaces, in recovery   *)
(* order.  Whether unary_union / union raise is not decided by the inputs  *)
(* the model sees, so both outcomes are possible.                          *)
(***************************************************************************)
EXTENDS Integers, Sequences, FiniteSets, TLC

\* ---- bounds -------------------------------------------------------------
\* faces of the arrangement
MaxFaces == 2
\* features of the two layers together
MaxFeatures == 2

\* ---- values -------------------------------------------------------------
None == [kind |-> "none"]
Missing == [kind |-> "missing"]
Attr(L, i, c) == [kind |-> "attr", layer |-> L, row |-> i, col |-> c]
FaceGeom(f) == [kind |-> "face", fid |-> f]
Poly(valid, holes) == [valid |-> valid, holes |-> holes, repaired |-> FALSE]
Geom(type, parts, covers) ==
    [kind |-> "geom", type |-> type, parts |-> parts, covers |-> covers]

\* A pandas Series: a name and labelled items, labels may repeat.
Series(name, items) == [name |-> name, items |-> items]
Item(label, val) == [label |-> label, val |-> val]

Labels(items) == [k \in 1..Len(items) |-> items[k].label]
HasLabel(items, label) == \E k \in 1..Len(items) : items[k].label = label

\* feat.geometry / cand['geometry']: the item labelled `label`.
GetItem(items, label) ==
    IF HasLabel(items, label)
    THEN items[CHOOSE k \in 1..Len(items) :
                   /\ items[k].label = label
                   /\ \A j \in 1..(k-1) : items[j].label # label].val
    ELSE Missing

\* ---- _extract_rings -----------------------------------------------------
\* poly.buffer(0)
Buffer0(poly) == [poly EXCEPT !.valid = TRUE, !.repaired = TRUE]

Ring(i, k, role, h, poly) ==
    [feat |-> i, part |-> k, role |-> role, hole |-> h, repaired |-> poly.repaired]

\* rings.append(poly.exterior); rings.extend(poly.interiors)
PolyRings(i, k, poly) ==
    LET p == IF ~poly.valid THEN Buffer0(poly) ELSE poly
    IN  <<Ring(i, k, "exterior", 0, p)>>
        \o [h \in 1..p.holes |-> Ring(i, k, "interior", h, p)]

RECURSIVE PartsRings(_, _, _)
PartsRings(i, parts, k) ==
    IF k > Len(parts) THEN <<>>
    ELSE PolyRings(i, k, parts[k]) \o PartsRings(i, parts, k + 1)

GeomRings(i, geom) ==
    IF geom.type = "MultiPolygon"
    THEN PartsRings(i, geom.parts, 1)
    ELSE PolyRings(i, 1, geom.parts[1])

\* variant: multi-polygons left out of the accepted types
SupportedTypes_PolygonOnly == {"Polygon"}

SupportedTypes == {"Polygon", "MultiPolygon"}

RECURSIVE ExtractFrom(_, _, _)
ExtractFrom(df, i, rings) ==
    IF i > Len(df.rows) THEN [err |-> "none", rings |-> rings]
    ELSE LET geom == GetItem(df.rows[i], "geometry")
         IN  IF geom.kind # "geom"
             THEN [err |-> "AttributeError", rings |-> <<>>]
             ELSE IF geom.type \notin SupportedTypes
             THEN [err |-> "UnsupportedGeometryType", rings |-> <<>>]
             ELSE ExtractFrom(df, i + 1, rings \o GeomRings(i, geom))

extract_rings(df) == ExtractFrom(df, 1, <<>>)

\* ---- overlay: face classification ---------------------------------------
\* variant: `difference` left out of the list
allowed_hows_NoDifference ==
    {"intersection", "union", "identity", "symmetric_difference"}

allowed_hows ==
    {"intersection", "union", "identity", "symmetric_difference", "difference"}

\* name of the i-th row of an input frame (default index 0..len-1)
RowName(i) == <<i - 1>>
NoName == <<>>

\* for i, cand in candidates: if cent.intersects(cand['geometry']): ... break
RECURSIVE ScanFrom(_, _, _)
ScanFrom(df, face, i) ==
    IF i > Len(df.rows) THEN [err |-> "none", hit |-> FALSE, prop |-> None]
    ELSE LET g == GetItem(df.rows[i], "geometry")
         IN  IF g.kind = "missing"
             THEN [err |-> "KeyError", hit |-> FALSE, prop |-> None]
             ELSE IF g.kind # "geom"
             THEN [err |-> "AttributeError", hit |-> FALSE, prop |-> None]
             ELSE IF face \in g.covers
             THEN [err |-> "none", hit |-> TRUE,
                   prop |-> Series(RowName(i), df.rows[i])]
             ELSE ScanFrom(df, face, i + 1)

\* variant: the scan has no break, the last intersecting feature wins
RECURSIVE ScanNoBreak(_, _, _, _)
ScanNoBreak(df, face, i, found) ==
    IF i > Len(df.rows) THEN found
    ELSE LET g == GetItem(df.rows[i], "geometry")
         IN  IF g.kind = "missing"
             THEN [err |-> "KeyError", hit |-> FALSE, prop |-> None]
             ELSE IF g.kind # "geom"
             THEN [err |-> "AttributeError", hit |-> FALSE, prop |-> None]
             ELSE ScanNoBreak(df, face, i + 1,
                      IF face \in g.covers
                      THEN [err |-> "none", hit |-> TRUE,
                            prop |-> Series(RowName(i), df.rows[i])]
                      ELSE found)

FirstHit_NoBreak(df, face) ==
    ScanNoBreak(df, face, 1, [err |-> "none", hit |-> FALSE, prop |-> None])

FirstHit(df, face) == ScanFrom(df, face, 1)

\* variant: difference without the negation of df2_hit
Include_DifferenceNoNot(h, df1_hit, df2_hit) ==
    IF h = "intersection" /\ (df1_hit /\ df2_hit) THEN TRUE
    ELSE IF h = "union" /\ (df1_hit \/ df2_hit) THEN TRUE
    ELSE IF h = "identity" /\ df1_hit THEN TRUE
    ELSE IF h = "symmetric_difference" /\ ~(df1_hit /\ df2_hit) THEN TRUE
    ELSE IF h = "difference" /\ (df1_hit /\ df2_hit) THEN TRUE
    ELSE FALSE

\* variant: union requires both hits
Include_UnionAnd(h, df1_hit, df2_hit) ==
    IF h = "intersection" /\ (df1_hit /\ df2_hit) THEN TRUE
    ELSE IF h = "union" /\ (df1_hit /\ df2_hit) THEN TRUE
    ELSE IF h = "identity" /\ df1_hit THEN TRUE
    ELSE IF h = "symmetric_difference" /\ ~(df1_hit /\ df2_hit) THEN TRUE
    ELSE IF h = "difference" /\ (df1_hit /\ ~df2_hit) THEN TRUE
    ELSE FALSE

\* variant: symmetric_difference as exclusive or
Include_SymmetricXor(h, df1_hit, df2_hit) ==
    IF h = "intersection" /\ (df1_hit /\ df2_hit) THEN TRUE
    ELSE IF h = "union" /\ (df1_hit \/ df2_hit) THEN TRUE
    ELSE IF h = "identity" /\ df1_hit THEN TRUE
    ELSE IF h = "symmetric_difference" /\ (df1_hit # df2_hit) THEN TRUE
    ELSE IF h = "difference" /\ (df1_hit /\ ~df2_hit) THEN TRUE
    ELSE FALSE

\* the if / elif chain on `how`
Include(h, df1_hit, df2_hit) ==
    IF h = "intersection" /\ (df1_hit /\ df2_hit) THEN TRUE
    ELSE IF h = "union" /\ (df1_hit \/ df2_hit) THEN TRUE
    ELSE IF h = "identity" /\ df1_hit THEN TRUE
    ELSE IF h = "symmetric_difference" /\ ~(df1_hit /\ df2_hit) THEN TRUE
    ELSE IF h = "difference" /\ (df1_hit /\ ~df2_hit) THEN TRUE
    ELSE FALSE

\* ---- overlay: gathering properties --------------------------------------
\* pd.Series(dict.fromkeys(df.columns, None))
NullSeries(df) ==
    Series(NoName, [k \in 1..Len(df.cols) |-> Item(df.cols[k], None)])

PropOrNull(df, scan) == IF scan.hit THEN scan.prop ELSE NullSeries(df)

\* pd.concat([prop1, prop2])
Concat(s1, s2) ==
    Series(IF s1.name = s2.name THEN s1.name ELSE NoName, s1.items \o s2.items)

\* Series.drop(label): removes every item carrying the label
DropLabel(items, label) == SelectSeq(items, LAMBDA it : it.label # label)

\* out_series.drop(df1 geometry column); try: out_series.drop(df2 geometry
\* column) except ValueError: pass
\* (the drop of an absent label raises the ValueError the code catches, as in
\* the pandas releases the code was written for)
DropGeometries(items, col1, col2) ==
    IF ~HasLabel(items, col1) THEN [err |-> "DropError", items |-> items]
    ELSE LET first == DropLabel(items, col1)
         IN  [err |-> "none",
              items |-> IF HasLabel(first, col2) THEN DropLabel(first, col2)
                        ELSE first]

\* out_series['geometry'] = newpoly
SetItem(items, label, val) ==
    IF HasLabel(items, label)
    THEN [k \in 1..Len(items) |->
             IF items[k].label = label THEN Item(label, val) ELSE items[k]]
    ELSE Append(items, Item(label, val))

OutSeries(d1, d2, scan1, scan2, face) ==
    LET out == Concat(PropOrNull(d1, scan1), PropOrNull(d2, scan2))
        dropped == DropGeometries(out.items, d1.geomcol, d2.geomcol)
    IN  [err |-> dropped.err,
         series |-> Series(out.name, SetItem(dropped.items, "geometry", FaceGeom(face)))]

\* ---- overlay: building the result ---------------------------------------
IndexLabel(name) == [kind |-> "label", name |-> name]

\* GeoDataFrame(collection)
DataFrameOf(coll) ==
    [index |-> [k \in 1..Len(coll) |-> coll[k].name],
     rows |-> [k \in 1..Len(coll) |-> coll[k].items]]

\* .reset_index(): the old index becomes a column, the index is 0..n-1
ResetIndex(d) ==
    [index |-> [k \in 1..Len(d.rows) |-> <<k - 1>>],
     rows |-> [k \in 1..Len(d.rows) |->
                  <<Item("index", IndexLabel(d.index[k]))>> \o d.rows[k]]]

\* gdf.drop('index', axis=1)
DropColumn(d, label) ==
    [index |-> d.index,
     rows |-> [k \in 1..Len(d.rows) |-> DropLabel(d.rows[k], label)]]

\* variant: the index is not reset
BuildResult_NoReset(coll) == DataFrameOf(coll)

BuildResult(coll) == DropColumn(ResetIndex(DataFrameOf(coll)), "index")

\* ---- inputs --------------------------------------------------------------
Faces(n) == 1..n

\* valid polygons, each containing the representative points of some of
\* the n faces of the arrangement
ValidPolygons(n) ==
    {Geom("Polygon", <<Poly(TRUE, 0)>>, c) : c \in SUBSET Faces(n)}

\* geometries of every type and validity, each spanning the n faces
Shapes(n) ==
    {Geom("Polygon", <<Poly(TRUE, 0)>>, Faces(n)),
     Geom("Polygon", <<Poly(FALSE, 1)>>, Faces(n)),
     Geom("MultiPolygon", <<Poly(TRUE, 1), Poly(FALSE, 0)>>, Faces(n)),
     Geom("Point", <<>>, {})}

\* the families of geometries the features of a call are drawn from
Geoms(n) == {ValidPolygons(n), Shapes(n)}

\* a second polygon column of the frame, distinct from the active geometry
OtherGeom(g, n) == Geom("Polygon", <<Poly(TRUE, 0)>>, Faces(n) \ g.covers)

\* a GeoDataFrame: columns, _geometry_column_name and rows
Layer(L, schema, geoms, n) ==
    [cols |-> schema.cols,
     geomcol |-> schema.geomcol,
     rows |-> [i \in 1..Len(geoms) |->
                 [k \in 1..Len(schema.cols) |->
                     Item(schema.cols[k],
                          IF schema.cols[k] = schema.geomcol THEN geoms[i]
                          ELSE IF schema.cols[k] = "geometry" /\ schema.other = "geom"
                          THEN OtherGeom(geoms[i], n)
                          ELSE Attr(L, i, schema.cols[k]))]]]

Own(L) == IF L = 1 THEN "a" ELSE "b"
Own2(L) == IF L = 1 THEN "c" ELSE "d"

\* the default frame: the geometry column is called `geometry`
StdSchema(L) ==
    [cols |-> <<Own(L), Own2(L), "geometry">>, geomcol |-> "geometry",
     other |-> "attr"]

\* frames sharing the attribute name `n`, whose active geometry column may
\* have another name
NameSchemas(L) ==
    {[cols |-> <<Own(L), "n", "geometry">>, geomcol |-> "geometry", other |-> "attr"],
     [cols |-> <<Own(L), "n", "geom">>, geomcol |-> "geom", other |-> "attr"],
     [cols |-> <<"geometry", "n", "geom">>, geomcol |-> "geom", other |-> "geom"],
     [cols |-> <<"geometry", "n", "geom">>, geomcol |-> "geom", other |-> "attr"],
     [cols |-> <<"geom", "n", "geometry">>, geomcol |-> "geometry", other |-> "attr"]}

\* the numbers of features of layer1 and layer2
Sizes ==
    {s \in (0..MaxFeatures) \X (0..MaxFeatures) : s[1] + s[2] <= MaxFeatures}

\* the numbers of faces an arrangement of s[1] + s[2] features may have:
\* without a ring there is no face
FaceCounts(s) == IF s[1] + s[2] = 0 THEN {0} ELSE 0..MaxFaces

\* ---- state ---------------------------------------------------------------
VARIABLES df1, df2, nfaces, how, pc, rings1, rings2, mm, unionCalls,
          newpolys, classified, collection, gdf, error

vars == <<df1, df2, nfaces, how, pc, rings1, rings2, mm, unionCalls,
          newpolys, classified, collection, gdf, error>>

inputs == <<df1, df2, nfaces>>

InitLocals ==
    /\ how = "unset"
    /\ pc = "start"
    /\ rings1 = <<>>
    /\ rings2 = <<>>
    /\ mm = None
    /\ unionCalls = <<>>
    /\ newpolys = <<>>
    /\ classified = <<>>
    /\ collection = <<>>
    /\ gdf = None
    /\ error = "none"

Init ==
    /\ \E s \in Sizes :
         /\ nfaces \in FaceCounts(s)
         /\ \E G \in Geoms(nfaces) :
              \E g1 \in [1..s[1] -> G], g2 \in [1..s[2] -> G] :
                 /\ df1 = Layer(1, StdSchema(1), g1, nfaces)
                 /\ df2 = Layer(2, StdSchema(2), g2, nfaces)
    /\ InitLocals

InitNames ==
    /\ \E s \in Sizes :
         /\ nfaces \in FaceCounts(s)
         /\ \E g1 \in [1..s[1] -> ValidPolygons(nfaces)],
            g2 \in [1..s[2] -> ValidPolygons(nfaces)],
            s1 \in NameSchemas(1), s2 \in NameSchemas(2) :
            /\ df1 = Layer(1, s1, g1, nfaces)
            /\ df2 = Layer(2, s2, g2, nfaces)
    /\ InitLocals

\* ---- overlay, statement by statement ------------------------------------
Raise(kind) ==
    /\ pc' = "error"
    /\ error' = kind

\* if how not in allowed_hows: raise ValueError
Call(h) ==
    /\ pc = "start"
    /\ how' = h
    /\ IF h \notin allowed_hows
       THEN Raise("InvalidRelation")
       ELSE pc' = "extract1" /\ error' = error
    /\ UNCHANGED <<inputs, rings1, rings2, mm, unionCalls, newpolys,
                   classified, collection, gdf>>

\* rings1 = _extract_rings(df1)
ExtractRings1 ==
    /\ pc = "extract1"
    /\ LET r == extract_rings(df1)
       IN  IF r.err # "none"
           THEN Raise(r.err) /\ rings1' = rings1
           ELSE pc' = "extract2" /\ rings1' = r.rings /\ error' = error
    /\ UNCHANGED <<inputs, how, rings2, mm, unionCalls, newpolys,
                   classified, collection, gdf>>

\* rings2 = _extract_rings(df2)
ExtractRings2 ==
    /\ pc = "extract2"
    /\ LET r == extract_rings(df2)
       IN  IF r.err # "none"
           THEN Raise(r.err) /\ rings2' = rings2
           ELSE pc' = "union" /\ rings2' = r.rings /\ error' = error
    /\ UNCHANGED <<inputs, how, rings1, mm, unionCalls, newpolys,
                   classified, collection, gdf>>

\* the merged network: which primitive produced it, from which line strings
Network(by, mls1, mls2) == [kind |-> "network", by |-> by, mls1 |-> mls1, mls2 |-> mls2]

\* a call of a union primitive of the kernel, as the kernel saw it
UnionCall(fn, mls1, mls2, raised) ==
    [fn |-> fn, mls1 |-> mls1, mls2 |-> mls2, raised |-> raised]

\* variant: no except clause, the error of unary_union leaves overlay
FastUnion_NoFallback ==
    /\ pc = "union"
    /\ \E raised \in BOOLEAN :
         /\ unionCalls' = Append(unionCalls,
                                 UnionCall("unary_union", rings1, rings2, raised))
         /\ IF raised
            THEN Raise("UnionFailure") /\ mm' = mm
            ELSE /\ pc' = "polygonize"
                 /\ mm' = Network("unary_union", rings1, rings2)
                 /\ error' = error
    /\ UNCHANGED <<inputs, how, rings1, rings2, newpolys, classified,
                   collection, gdf>>

\* try: mm = unary_union([mls1, mls2])
FastUnion ==
    /\ pc = "union"
    /\ \E raised \in BOOLEAN :
         /\ unionCalls' = Append(unionCalls,
                                 UnionCall("unary_union", rings1, rings2, raised))
         /\ IF raised
            THEN pc' = "fallback" /\ mm' = mm
            ELSE pc' = "polygonize" /\ mm' = Network("unary_union", rings1, rings2)
    /\ UNCHANGED <<inputs, how, rings1, rings2, newpolys, classified,
                   collection, gdf, error>>

\* except: mm = mls1.union(mls2)
RobustUnion ==
    /\ pc = "fallback"
    /\ \E raised \in BOOLEAN :
         /\ unionCalls' = Append(unionCalls,
                                 UnionCall("union", rings1, rings2, raised))
         /\ IF raised
            THEN Raise("UnionFailure") /\ mm' = mm
            ELSE /\ pc' = "polygonize"
                 /\ mm' = Network("union", rings1, rings2)
                 /\ error' = error
    /\ UNCHANGED <<inputs, how, rings1, rings2, newpolys, classified,
                   collection, gdf>>

\* newpolys = polygonize(mm)
Polygonize ==
    /\ pc = "polygonize"
    /\ newpolys' = [f \in 1..nfaces |-> f]
    /\ pc' = "classify"
    /\ UNCHANGED <<inputs, how, rings1, rings2, mm, unionCalls, classified,
                   collection, gdf, error>>

\* one iteration of: for fid, newpoly in enumerate(newpolys)
ClassifyFace ==
    /\ pc = "classify"
    /\ newpolys # <<>>
    /\ LET newpoly == Head(newpolys)
           scan1 == FirstHit(df1, newpoly)
           scan2 == FirstHit(df2, newpoly)
           scanErr == IF scan1.err # "none" THEN scan1.err ELSE scan2.err
           hit == Include(how, scan1.hit, scan2.hit)
           out == OutSeries(df1, df2, scan1, scan2, newpoly)
           locals == [fid |-> Len(classified), newpoly |-> newpoly,
                      df1_hit |-> scan1.hit, df2_hit |-> scan2.hit,
                      prop1 |-> scan1.prop, prop2 |-> scan2.prop, hit |-> hit]
       IN  IF scanErr # "none"
           THEN Raise(scanErr) /\ UNCHANGED <<newpolys, classified, collection>>
           ELSE IF ~hit
           THEN /\ newpolys' = Tail(newpolys)
                /\ classified' = Append(classified, locals)
                /\ UNCHANGED <<collection, pc, error>>
           ELSE IF out.err # "none"
           THEN Raise(out.err) /\ UNCHANGED <<newpolys, classified, collection>>
           ELSE /\ newpolys' = Tail(newpolys)
                /\ classified' = Append(classified, locals)
                /\ collection' = Append(collection, out.series)
                /\ UNCHANGED <<pc, error>>
    /\ UNCHANGED <<inputs, how, rings1, rings2, mm, unionCalls, gdf>>

\* gdf = GeoDataFrame(collection).reset_index(); gdf.drop('index', ...); return
Finish ==
    /\ pc = "classify"
    /\ newpolys = <<>>
    /\ gdf' = BuildResult(collection)
    /\ pc' = "done"
    /\ UNCHANGED <<inputs, how, rings1, rings2, mm, unionCalls, newpolys,
                   classified, collection, error>>

\* the relations a caller passes: the five of allowed_hows and another string
Hows ==
    {"intersection", "union", "identity", "symmetric_difference", "difference",
     "clip"}

Next ==
    \/ \E h \in Hows : Call(h)
    \/ ExtractRings1
    \/ ExtractRings2
    \/ FastUnion
    \/ RobustUnion
    \/ Polygonize
    \/ ClassifyFace
    \/ Finish

Spec == Init /\ [][Next]_vars
SpecNames == InitNames /\ [][Next]_vars

TypeOK == pc \in {"start", "extract1", "extract2", "union", "fallback",
                  "polygonize", "classify", "done", "error"}

\* ---- vocabulary of the properties ----------------------------------------
ValidRelations ==
    {"intersection", "union", "identity", "symmetric_difference", "difference"}

\* the decision table of the face classifier
Table(h, a, b) ==
    CASE h = "intersection" -> a /\ b
      [] h = "union" -> a \/ b
      [] h = "identity" -> a
      [] h = "symmetric_difference" -> ~(a /\ b)
      [] h = "difference" -> a /\ ~b
      [] OTHER -> FALSE

RecordFace(series) == GetItem(series.items, "geometry")

IsRecordOf(series, f) == RecordFace(series) = FaceGeom(f)

EmittedFaces == {f \in Faces(nfaces) :
                    \E j \in 1..Len(collection) : IsRecordOf(collection[j], f)}

\* the features whose geometry contains the representative point of face f
Covering(df, f) ==
    {i \in 1..Len(df.rows) :
        LET g == GetItem(df.rows[i], df.geomcol)
        IN  g.kind = "geom" /\ f \in g.covers}

Min(S) == CHOOSE x \in S : \A y \in S : x <= y

NonGeomCols(df) == SelectSeq(df.cols, LAMBDA c : c # df.geomcol)

ExpectedAttrs(L, df, f) ==
    LET cols == NonGeomCols(df)
    IN  [k \in 1..Len(cols) |->
            Item(cols[k], IF Covering(df, f) = {} THEN None
                          ELSE Attr(L, Min(Covering(df, f)), cols[k]))]

Unsupported(df) ==
    \E i \in 1..Len(df.rows) :
        LET g == GetItem(df.rows[i], df.geomcol)
        IN  g.kind = "geom" /\ g.type \notin {"Polygon", "MultiPolygon"}

HasInvalidPolygon(df) ==
    \E i \in 1..Len(df.rows) :
        LET g == GetItem(df.rows[i], df.geomcol)
        IN  g.kind = "geom" /\ \E k \in 1..Len(g.parts) : ~g.parts[k].valid

NothingProcessed ==
    /\ rings1 = <<>>
    /\ rings2 = <<>>
    /\ unionCalls = <<>>
    /\ mm = None
    /\ newpolys = <<>>
    /\ classified = <<>>
    /\ collection = <<>>
    /\ gdf = None

C2_InvalidRelationFirst ==
    /\ (how # "unset" /\ how \notin ValidRelations) =>
          (pc = "error" /\ error = "InvalidRelation" /\ NothingProcessed)
    /\ how \in ValidRelations => error # "InvalidRelation"

C2_Witness ==
    /\ error = "InvalidRelation"
    /\ Unsupported(df1)
    /\ Len(df2.rows) > 0

\* ---- C3 -------------------------------------------------------------------
\* C3: with a valid relation, the call ends with UnsupportedGeometryType
\* exactly when some feature of either layer is neither polygon nor
\* multi-polygon; it then ended before any union call, face or record and
\* without a result; rings of invalid polygons are taken from the repaired
\* polygon, and an invalid polygon causes no failure.
C3_UnsupportedGeometry ==
    LET bad == Unsupported(df1) \/ Unsupported(df2)
    IN  /\ error = "UnsupportedGeometryType" => (how \in ValidRelations /\ bad)
        /\ (how \in ValidRelations /\ bad) =>
              (pc \in {"extract1", "extract2"}
               \/ (pc = "error" /\ error = "UnsupportedGeometryType"))
        /\ error = "UnsupportedGeometryType" =>
              (/\ unionCalls = <<>>
               /\ mm = None
               /\ classified = <<>>
               /\ collection = <<>>
               /\ gdf = None)
        /\ ~bad => error \in {"none", "InvalidRelation", "UnionFailure"}
        /\ (pc \notin {"start", "extract1", "extract2", "error"}) =>
              /\ \A r \in 1..Len(rings1) :
                    LET ring == rings1[r]
                        g == GetItem(df1.rows[ring.feat], df1.geomcol)
                    IN  ring.repaired <=> ~g.parts[ring.part].valid
              /\ HasInvalidPolygon(df1) =>
                    \E r \in 1..Len(rings1) : rings1[r].repaired
              /\ HasInvalidPolygon(df2) =>
                    \E r \in 1..Len(rings2) : rings2[r].repaired

C3_Witness ==
    /\ pc = "error"
    /\ error = "UnsupportedGeometryType"
    /\ ~Unsupported(df1)
    /\ HasInvalidPolygon(df1)
    /\ \E r \in 1..Len(rings1) : rings1[r].repaired

\* ---- C4 -------------------------------------------------------------------
\* C4: the fast union is the first union call; the robust union is called
\* exactly when the fast union raised, on the same two multi-line-strings;
\* when the robust union succeeds its result is the network and no error is
\* raised; the call ends with UnionFailure only when both calls raised.
C4_UnionFallback ==
    /\ Len(unionCalls) <= 2
    /\ Len(unionCalls) >= 1 =>
          (/\ unionCalls[1].fn = "unary_union"
           /\ unionCalls[1].mls1 = rings1
           /\ unionCalls[1].mls2 = rings2)
    /\ Len(unionCalls) = 1 =>
          IF unionCalls[1].raised THEN pc = "fallback"
          ELSE mm = Network("unary_union", rings1, rings2)
    /\ Len(unionCalls) = 2 =>
          (/\ unionCalls[1].raised
           /\ unionCalls[2].fn = "union"
           /\ unionCalls[2].mls1 = unionCalls[1].mls1
           /\ unionCalls[2].mls2 = unionCalls[1].mls2
           /\ IF unionCalls[2].raised
              THEN pc = "error" /\ error = "UnionFailure"
              ELSE mm = Network("union", rings1, rings2) /\ error = "none")
    /\ error = "UnionFailure" =>
          (Len(unionCalls) = 2 /\ unionCalls[1].raised /\ unionCalls[2].raised)
    /\ pc \in {"polygonize", "classify", "done"} =>
          (mm # None /\ ~unionCalls[Len(unionCalls)].raised)

C4_Witness ==
    /\ pc = "done"
    /\ Len(unionCalls) = 2
    /\ mm.by = "union"
    /\ Len(gdf.rows) > 0

\* ---- C5 -------------------------------------------------------------------
\* C5: for every emitted face and each layer: df_hit says whether some
\* feature of the layer contains the representative point; the record holds
\* layer1's attributes then layer2's, each taken from the first containing
\* feature of its own layer, or all null when the layer has none.
C5_FirstMatchAndNulls ==
    \A k \in 1..Len(classified) :
        LET c == classified[k]
            n1 == Len(NonGeomCols(df1))
            n2 == Len(NonGeomCols(df2))
        IN  c.hit =>
              /\ c.df1_hit <=> Covering(df1, c.newpoly) # {}
              /\ c.df2_hit <=> Covering(df2, c.newpoly) # {}
              /\ \E j \in 1..Len(collection) :
                    /\ IsRecordOf(collection[j], c.newpoly)
                    /\ SubSeq(collection[j].items, 1, n1)
                          = ExpectedAttrs(1, df1, c.newpoly)
                    /\ SubSeq(collection[j].items, n1 + 1, n1 + n2)
                          = ExpectedAttrs(2, df2, c.newpoly)

C5_Witness ==
    /\ pc = "done"
    /\ \E k \in 1..Len(classified) :
          /\ classified[k].hit
          /\ Cardinality(Covering(df1, classified[k].newpoly)) = 2
          /\ classified[k].prop1.name = RowName(1)
          /\ Covering(df2, classified[k].newpoly) = {}

\* ---- C6 -------------------------------------------------------------------
\* C6: every output record has exactly layer1's non-geometry columns, then
\* layer2's non-geometry columns, then one `geometry` item holding the face;
\* no input geometry value survives and dropping the geometry columns never
\* fails, whatever the column names of the two layers are.
C6_OutputColumns ==
    /\ error # "DropError"
    /\ \A j \in 1..Len(collection) :
          LET items == collection[j].items
          IN  /\ Labels(items)
                    = NonGeomCols(df1) \o NonGeomCols(df2) \o <<"geometry">>
              /\ items[Len(items)].val.kind = "face"
              /\ \A k \in 1..Len(items) : items[k].val.kind # "geom"

\* ---- C7 -------------------------------------------------------------------
\* the faces a run with relation h on layers (d1, d2) emits
RelationFaces(h, d1, d2) ==
    {f \in Faces(nfaces) :
        Include(h, FirstHit(d1, f).hit, FirstHit(d2, f).hit)}

\* C7: a finished run emits the faces of its relation, and the faces a union
\* run emits are those of intersection(A, B), difference(A, B) and
\* difference(B, A) together, these three sets being pairwise disjoint.
C7_UnionDecomposition ==
    pc = "done" =>
        LET I == RelationFaces("intersection", df1, df2)
            D == RelationFaces("difference", df1, df2)
            E == RelationFaces("difference", df2, df1)
        IN  /\ EmittedFaces = RelationFaces(how, df1, df2)
            /\ how = "union" => EmittedFaces = I \cup D \cup E
            /\ I \cap D = {}
            /\ I \cap E = {}
            /\ D \cap E = {}

C7_Witness ==
    /\ pc = "done"
    /\ how = "union"
    /\ EmittedFaces \cap RelationFaces("intersection", df1, df2) # {}
    /\ EmittedFaces \cap RelationFaces("difference", df2, df1) # {}

\* ---- C8 -------------------------------------------------------------------
AllAttributesNull(series) ==
    \A k \in 1..Len(series.items) :
        series.items[k].label # "geometry" => series.items[k].val = None

C9_ResultOrderAndIndex ==
    /\ pc = "done" =>
          LET inc == SelectSeq(classified, LAMBDA c : c.hit)
          IN  /\ Len(classified) = nfaces
              /\ \A k \in 1..Len(classified) :
                    classified[k].newpoly = k /\ classified[k].fid = k - 1
              /\ Len(gdf.rows) = Len(inc)
              /\ Len(gdf.index) = Len(inc)
              /\ \A k \in 1..Len(inc) :
                    /\ GetItem(gdf.rows[k], "geometry") = FaceGeom(inc[k].newpoly)
                    /\ gdf.index[k] = <<k - 1>>
                    /\ ~HasLabel(gdf.rows[k], "index")
    /\ (pc = "classify" /\ newpolys = <<>>) => ENABLED Finish
    /\ pc = "error" => classified = <<>>

C9_Witness ==
    /\ pc = "done"
    /\ Len(gdf.rows) = 1
    /\ ~classified[1].hit
    /\ classified[2].hit
    /\ collection[1].name # <<0>>

\* ---- C10 ------------------------------------------------------------------
\* C10: each layer is classified against its designated geometry column:
\* df_hit says whether a feature's designated geometry contains the point,
\* and no call fails because that column is not called `geometry`.
C10_DesignatedGeometryColumn ==
    /\ error \notin {"AttributeError", "KeyError"}
    /\ \A k \in 1..Len(classified) :
          LET c == classified[k]
          IN  /\ c.df1_hit <=> Covering(df1, c.newpoly) # {}
              /\ c.df2_hit <=> Covering(df2, c.newpoly) # {}

====
